---------------------------- MODULE Spec2Model ----------------------------
(***************************************************************************)
(* Scheme search of the voice-first WhatsApp bot.                          *)
(*                                                                         *)
(* The bot side (BackendService.searchSchemes) builds a request from the   *)
(* stored user row and posts it to the scheme service.  The scheme service *)
(* (eligibility filter, embedding index, keyword scorer, score fusion,     *)
(* orchestrator, snapshot rebuild) is modelled from the design document.   *)
(*                                                                         *)
(* Optional values are sets with at most one element: {} is "unset".       *)
(* Scores are percentages (0..100); a final score is in 1/10000.           *)
(***************************************************************************)
EXTENDS Integers, Sequences, FiniteSets, TLC

(***************************************************************************)
(* Bounds of the model.                                                    *)
(***************************************************************************)
\* at most this many profile fields of a user row are set (pipeline runs)
MaxFieldsSet == 2
\* the same, in the runs that interleave searches with rebuilds
MaxFieldsSetRebuild == 0
\* snapshot versions 1..MaxVersion exist (MaxVersion - 1 rebuilds)
MaxVersion == 3
\* number of nearest neighbours the orchestrator asks the index for
TopK == 2
\* rows the user_scheme_matches table holds at most
MaxMatches == 3

(***************************************************************************)
(* Text.  A text is a sequence of words; Lower is String.toLowerCase on    *)
(* the words and state names that occur.                                   *)
(***************************************************************************)
Lower(w) ==
    CASE w = "Farmer" -> "farmer"
      [] w = "Scheme" -> "scheme"
      [] w = "Pension" -> "pension"
      [] w = "Maharashtra" -> "maharashtra"
      [] w = "KERALA" -> "kerala"
      [] w = "/HELP" -> "/help"
      [] w = "WEATHER" -> "weather"
      [] w = "Health" -> "health"
      [] OTHER -> w

Range(s) == {s[i] : i \in DOMAIN s}

Min(a, b) == IF a <= b THEN a ELSE b

\* floor of the square root
ISqrt(n) == CHOOSE r \in 0..n : r * r <= n /\ (r + 1) * (r + 1) > n

(***************************************************************************)
(* Scheme records (schema.sql: schemes, scheme_embeddings; design §3).     *)
(***************************************************************************)
Flags == {"minority", "differently_abled", "bpl", "student"}

NoFlags == [x \in Flags |-> FALSE]

SchemeIds == {1, 2, 3, 4, 5, 6, 7}

BaseScheme(id) ==
    CASE id = 1 ->
           [id |-> 1, slug |-> "kisan",
            name |-> <<"Farmer", "Pension", "Scheme">>,
            category |-> <<"agriculture">>,
            description |-> <<"pension", "for", "farmer">>,
            state |-> "maharashtra", caste |-> {},
            requires |-> NoFlags,
            min_age |-> {18}, max_age |-> {60},
            gender |-> "any", income_limit |-> {}]
      [] id = 2 ->
           [id |-> 2, slug |-> "mahila",
            name |-> <<"farmer", "scheme">>,
            category |-> <<>>,
            description |-> <<>>,
            state |-> "kerala", caste |-> {},
            requires |-> NoFlags,
            min_age |-> {}, max_age |-> {},
            gender |-> "female", income_limit |-> {}]
      [] id = 3 ->
           [id |-> 3, slug |-> "awas",
            name |-> <<"housing", "Scheme">>,
            category |-> <<"housing">>,
            description |-> <<"house", "for", "poor">>,
            state |-> "", caste |-> {},
            requires |-> [NoFlags EXCEPT !["bpl"] = TRUE],
            min_age |-> {}, max_age |-> {},
            gender |-> "any", income_limit |-> {2}]
      [] id = 4 ->
           [id |-> 4, slug |-> "vidya",
            name |-> <<"student", "scholarship", "scheme">>,
            category |-> <<"education">>,
            description |-> <<>>,
            state |-> "", caste |-> {},
            requires |-> [NoFlags EXCEPT !["student"] = TRUE, !["minority"] = TRUE],
            min_age |-> {}, max_age |-> {},
            gender |-> "any", income_limit |-> {}]
      [] id = 5 ->
           [id |-> 5, slug |-> "divyang",
            name |-> <<"welfare">>,
            category |-> <<>>,
            description |-> <<>>,
            state |-> "", caste |-> {},
            requires |-> [NoFlags EXCEPT !["differently_abled"] = TRUE],
            min_age |-> {}, max_age |-> {},
            gender |-> "any", income_limit |-> {}]
      [] id = 7 ->
           [id |-> 7, slug |-> "xyz",
            name |-> <<"relief">>,
            category |-> <<>>,
            description |-> <<>>,
            state |-> "", caste |-> {},
            requires |-> NoFlags,
            min_age |-> {}, max_age |-> {},
            gender |-> "any", income_limit |-> {}]
      [] OTHER ->
           [id |-> 6, slug |-> "abc",
            name |-> <<"housing", "welfare">>,
            category |-> <<>>,
            description |-> <<>>,
            state |-> "", caste |-> {"sc", "st"},
            requires |-> NoFlags,
            min_age |-> {}, max_age |-> {},
            gender |-> "any", income_limit |-> {}]

\* slugs in ascending string order
SlugsAscending == <<"abc", "awas", "divyang", "kisan", "mahila", "vidya", "xyz">>

SlugRank(slug) == CHOOSE i \in DOMAIN SlugsAscending : SlugsAscending[i] = slug

(***************************************************************************)
(* What the ingestion collaborator hands to rebuildIndex for version v     *)
(* (SchemeStore.loadAll): records are replaced wholesale between versions. *)
(***************************************************************************)
Versions == 1..MaxVersion

CatalogueIds(v) == {i \in SchemeIds : ~(i = 2 /\ v % 2 = 0)}

Scheme(v, id) ==
    IF id = 1 /\ v % 2 = 0
    THEN [BaseScheme(1) EXCEPT !.max_age = {40}, !.name = <<"Pension">>]
    ELSE BaseScheme(id)

BaseEmbedding(id) ==
    CASE id = 1 -> <<1, 1>>
      [] id = 2 -> <<1, 0>>
      [] id = 3 -> <<0, 1>>
      [] id = 5 -> <<1, 1>>
      [] OTHER  -> <<2, 1>>

\* schemes 4 and 7 never have an embedding, scheme 6 only from version 3 on
EmbeddedIds(v) == CatalogueIds(v) \cap ({1, 2, 3, 5} \cup (IF v >= 3 THEN {6} ELSE {}))

Embedding(v, id) == IF id = 1 /\ v % 2 = 0 THEN <<0, 1>> ELSE BaseEmbedding(id)

(***************************************************************************)
(* Queries and the external embedder's answer for them.                    *)
(***************************************************************************)
Queries == {<<"Farmer", "scheme">>, <<"housing">>, <<"loan">>}

\* the vector of "loan" points away from every scheme embedding
QueryVector(q) ==
    CASE q = <<"housing">> -> <<0, 1>>
      [] q = <<"loan">> -> <<-1, -1>>
      [] OTHER -> <<1, 0>>

\* a vector of the wrong dimension
ShortVector == <<1>>

(***************************************************************************)
(* User rows (schema.sql: users; User.createOrUpdate / User.updateProfile  *)
(* write the profile columns).  A row as SELECT * returns it.              *)
(***************************************************************************)
OptAges    == {{}, {-1}, {17}, {18}, {60}, {61}}
OptGenders == {{}, {"male"}, {"female"}}
OptStates  == {{}, {"Maharashtra"}, {"KERALA"}}
OptIncomes == {{}, {1}, {3}}
OptCastes  == {{}, {"sc"}}
OptBools   == {{}, {TRUE}, {FALSE}}

FieldsSet(u) ==
      (IF u.age = {} THEN 0 ELSE 1) + (IF u.gender = {} THEN 0 ELSE 1)
    + (IF u.state = {} THEN 0 ELSE 1) + (IF u.income = {} THEN 0 ELSE 1)
    + (IF u.caste = {} THEN 0 ELSE 1)
    + (IF u.is_minority = {} THEN 0 ELSE 1)
    + (IF u.is_differently_abled = {} THEN 0 ELSE 1)
    + (IF u.is_bpl = {} THEN 0 ELSE 1) + (IF u.is_student = {} THEN 0 ELSE 1)

AllUsers ==
    [age : OptAges, gender : OptGenders, state : OptStates,
     income : OptIncomes, caste : OptCastes,
     is_minority : OptBools, is_differently_abled : OptBools,
     is_bpl : OptBools, is_student : OptBools]

Users == {u \in AllUsers : FieldsSet(u) <= MaxFieldsSet}

UsersRebuild == {u \in AllUsers : FieldsSet(u) <= MaxFieldsSetRebuild}

(***************************************************************************)
(* BackendService.searchSchemes: the body posted to                        *)
(* /tools/scheme_service/search_schemes.  user.income is not sent.         *)
(***************************************************************************)
SearchRequestNoAge(query, user) ==
    [query |-> query, user_age |-> {}, user_gender |-> user.gender,
     user_state |-> user.state, user_caste |-> user.caste,
     is_minority |-> user.is_minority,
     is_differently_abled |-> user.is_differently_abled,
     is_bpl |-> user.is_bpl, is_student |-> user.is_student]

SearchRequestNoGender(query, user) ==
    [query |-> query, user_age |-> user.age, user_gender |-> {},
     user_state |-> user.state, user_caste |-> user.caste,
     is_minority |-> user.is_minority,
     is_differently_abled |-> user.is_differently_abled,
     is_bpl |-> user.is_bpl, is_student |-> user.is_student]

\* user.age || 0
SearchRequestAgeOrZero(query, user) ==
    [query |-> query, user_age |-> IF user.age = {} THEN {0} ELSE user.age,
     user_gender |-> user.gender,
     user_state |-> user.state, user_caste |-> user.caste,
     is_minority |-> user.is_minority,
     is_differently_abled |-> user.is_differently_abled,
     is_bpl |-> user.is_bpl, is_student |-> user.is_student]

\* is_bpl: user.is_student
SearchRequestFlagSlip(query, user) ==
    [query |-> query, user_age |-> user.age, user_gender |-> user.gender,
     user_state |-> user.state, user_caste |-> user.caste,
     is_minority |-> user.is_minority,
     is_differently_abled |-> user.is_differently_abled,
     is_bpl |-> user.is_student, is_student |-> user.is_student]

SearchRequest(query, user) ==
    [query |-> query, user_age |-> user.age, user_gender |-> user.gender,
     user_state |-> user.state, user_caste |-> user.caste,
     is_minority |-> user.is_minority,
     is_differently_abled |-> user.is_differently_abled,
     is_bpl |-> user.is_bpl, is_student |-> user.is_student]

(***************************************************************************)
(* Scheme service: the UserProfile of a request (design §3).               *)
(***************************************************************************)
ProfileOf(req) ==
    [age |-> req.user_age, gender |-> req.user_gender,
     state |-> req.user_state, caste |-> req.user_caste, income |-> {},
     is |-> [x \in Flags |->
               CASE x = "minority" -> req.is_minority
                 [] x = "differently_abled" -> req.is_differently_abled
                 [] x = "bpl" -> req.is_bpl
                 [] OTHER -> req.is_student]]

\* ValidationError: malformed query/profile, e.g. negative age (design §7)
ValidRequest(req) == \A a \in req.user_age : a >= 0

(***************************************************************************)
(* EligibilityFilter (design §4.1).                                        *)
(***************************************************************************)
AgeOk(s, p) ==
    \A a \in p.age : (\A lo \in s.min_age : a >= lo) /\ (\A hi \in s.max_age : a <= hi)

GenderOk(s, p) == s.gender = "any" \/ (\A g \in p.gender : g = s.gender)

StateOk(s, p) == s.state = "" \/ (\A st \in p.state : Lower(st) = Lower(s.state))

IncomeOk(s, p) == \A i \in p.income : \A lim \in s.income_limit : i <= lim

FlagsOk(s, p) == \A x \in Flags : s.requires[x] => TRUE \in p.is[x]

\* design defaults of the soft score (percent)
SoftNeutral == 50
SoftCasteWeight == 30
SoftFlagWeight == 5

CasteOverlap(s, p) ==
    IF s.caste = {} \/ p.caste = {} THEN 0
    ELSE (100 * Cardinality(s.caste \cap p.caste)) \div Cardinality(s.caste \cup p.caste)

MatchedOptionalFlags(s, p) == {x \in Flags : ~s.requires[x] /\ TRUE \in p.is[x]}

SoftScore(s, p) ==
    SoftNeutral + (SoftCasteWeight * CasteOverlap(s, p)) \div 100
                + SoftFlagWeight * Cardinality(MatchedOptionalFlags(s, p))

FailedReasons(s, p) ==
    {r \in {"age", "gender", "state", "income", "flags"} :
        CASE r = "age" -> ~AgeOk(s, p)
          [] r = "gender" -> ~GenderOk(s, p)
          [] r = "state" -> ~StateOk(s, p)
          [] r = "income" -> ~IncomeOk(s, p)
          [] OTHER -> ~FlagsOk(s, p)}

EligibilityFilter(s, p) ==
    [admitted |-> FailedReasons(s, p) = {},
     reasons |-> FailedReasons(s, p),
     softScore |-> SoftScore(s, p)]

(***************************************************************************)
(* KeywordScorer (design §4.3): Jaccard overlap of lower-cased token sets. *)
(***************************************************************************)
Tokens(text) == {Lower(w) : w \in Range(text)}

SchemeTokens(s) == Tokens(s.name) \cup Tokens(s.category) \cup Tokens(s.description)

KeywordScore(query, s) ==
    LET a == Tokens(query)
        b == SchemeTokens(s)
    IN  IF a = {} \/ b = {} THEN 0
        ELSE (100 * Cardinality(a \cap b)) \div Cardinality(a \cup b)

(***************************************************************************)
(* Cosine similarity in percent, in -100..100.                             *)
(***************************************************************************)
RECURSIVE Dot(_, _)
Dot(a, b) == IF a = <<>> THEN 0 ELSE Head(a) * Head(b) + Dot(Tail(a), Tail(b))

Cosine(a, b) ==
    IF Dot(a, a) = 0 \/ Dot(b, b) = 0 THEN 0
    ELSE LET magnitude == ISqrt((10000 * Dot(a, b) * Dot(a, b)) \div (Dot(a, a) * Dot(b, b)))
         IN  IF Dot(a, b) < 0 THEN 0 - magnitude ELSE magnitude

(***************************************************************************)
(* State.                                                                  *)
(*   active     version the active-snapshot pointer refers to              *)
(*   snapshots  per version, the scheme ids and the embedded ids loaded    *)
(*              into it so far                                             *)
(*   allocated  highest version number handed to a rebuild                 *)
(*   lock       the writer holding the rebuild lock ({} when free)         *)
(*   writer     per writer, its position in rebuildIndex and its version   *)
(*   call       the searchSchemes call of the bot (one at a time; searches *)
(*              write no shared state, so further callers add nothing)     *)
(*   prev       history: outcome of the preceding call when it had the     *)
(*              same query and user ({} otherwise)                         *)
(*   matches    rows of table user_scheme_matches                          *)
(*   users      the rows of table users with the sender's wp_user_id, in   *)
(*              insertion order (one sender is modelled)                   *)
(*   messages   the message_type values of the rows of table messages      *)
(*   bot        per handler invocation, the message event it handles       *)
(*   audioProcessor  the temp_audio directory (the creation stamps of its  *)
(*              files), whether AudioProcessor.init has run, the file name *)
(*              last returned, and the file_type values of the rows of     *)
(*              table audio_files                                          *)
(*   dbq        the Database.query call in progress                        *)
(***************************************************************************)
VARIABLES active, snapshots, allocated, lock, writer, call, prev,
          matches, users, messages, bot, audioProcessor, dbq

indexVars == <<active, snapshots, allocated, lock, writer>>
storeVars == <<matches, users, messages, bot>>
hostVars == <<audioProcessor, dbq>>
vars == <<active, snapshots, allocated, lock, writer, call, prev, matches, users,
          messages, bot, audioProcessor, dbq>>

Writers == {"w1", "w2"}

EmptySnapshot == [schemes |-> {}, embeddings |-> {}]

FullSnapshot(v) == [schemes |-> CatalogueIds(v), embeddings |-> EmbeddedIds(v)]

Complete(v) == snapshots[v] = FullSnapshot(v)

(***************************************************************************)
(* EmbeddingIndex.search over snapshot v (design §4.2): at most k entries, *)
(* descending similarity, ties by ascending scheme_id.                     *)
(***************************************************************************)
IndexDimension(v) ==
    IF snapshots[v].embeddings = {} THEN {}
    ELSE {Len(Embedding(v, CHOOSE i \in snapshots[v].embeddings : TRUE))}

DimensionMismatch(v, qv) == \E d \in IndexDimension(v) : Len(qv) /= d

Closer(v, qv, i, j) ==
    LET si == Cosine(qv, Embedding(v, i))
        sj == Cosine(qv, Embedding(v, j))
    IN  si > sj \/ (si = sj /\ i < j)

RECURSIVE Nearest(_, _, _, _)
Nearest(v, qv, ids, k) ==
    IF ids = {} \/ k = 0 THEN <<>>
    ELSE LET best == CHOOSE i \in ids : \A j \in ids \ {i} : Closer(v, qv, i, j)
         IN  <<[scheme_id |-> best, similarity |-> Cosine(qv, Embedding(v, best))]>>
             \o Nearest(v, qv, ids \ {best}, k - 1)

IndexSearch(v, qv, k) == Nearest(v, qv, snapshots[v].embeddings, k)

(***************************************************************************)
(* ScoreFusion / Ranker (design §4.4).                                     *)
(***************************************************************************)
W_V == 50
W_K == 20
W_E == 30
DefaultLimit == 3

RECURSIVE AscendingSeq(_)
AscendingSeq(S) ==
    IF S = {} THEN <<>>
    ELSE LET m == CHOOSE x \in S : \A y \in S : x <= y
         IN  <<m>> \o AscendingSeq(S \ {m})

\* ids surfaced by the vector path, then by the keyword/rule pass
Surfaced(v, cands) ==
    [i \in DOMAIN cands |-> cands[i].scheme_id] \o AscendingSeq(snapshots[v].schemes)

\* both paths' entries are emitted
DedupOff(ids) == ids

RECURSIVE Dedup(_)
Dedup(ids) ==
    IF ids = <<>> THEN <<>>
    ELSE LET front == Dedup(SubSeq(ids, 1, Len(ids) - 1))
             x == ids[Len(ids)]
         IN  IF x \in Range(front) THEN front ELSE Append(front, x)

\* the similarity of a scheme: present only if the vector path surfaced it
SimilarityOf(cands, id) == {cands[i].similarity : i \in {j \in DOMAIN cands : cands[j].scheme_id = id}}

\* keyword and eligibility weights not renormalised when similarity is absent
FinalScoreUnnormalised(sim, kw, soft) ==
    IF sim = {} THEN 100 * kw + 100 * soft
    ELSE W_V * (CHOOSE x \in sim : TRUE) + W_K * kw + W_E * soft

FinalScore(sim, kw, soft) ==
    IF sim = {} THEN ((100 * W_K) \div (W_K + W_E)) * kw + ((100 * W_E) \div (W_K + W_E)) * soft
    ELSE W_V * (CHOOSE x \in sim : TRUE) + W_K * kw + W_E * soft

\* similarity absent handled as a present similarity of 0
MatchedByAsZero(sim, kw, soft) ==
    LET cv == IF sim = {} THEN 0 ELSE W_V * (CHOOSE x \in sim : TRUE)
        ck == W_K * kw
        ce == W_E * soft
    IN  IF cv > 0 /\ cv > ck /\ cv > ce THEN "vector"
        ELSE IF cv = 0 /\ kw > 0 /\ ck > ce THEN "keyword"
        ELSE IF cv = 0 /\ kw = 0 THEN "rule"
        ELSE "hybrid"

MatchedBy(sim, kw, soft) ==
    IF sim = {}
    THEN IF kw > 0 /\ ((100 * W_K) \div (W_K + W_E)) * kw > ((100 * W_E) \div (W_K + W_E)) * soft
         THEN "keyword" ELSE "rule"
    ELSE LET cv == W_V * (CHOOSE x \in sim : TRUE)
             ck == W_K * kw
             ce == W_E * soft
         IN  IF cv > 0 /\ cv > ck /\ cv > ce THEN "vector"
             ELSE IF cv = 0 /\ kw > 0 /\ ck > ce THEN "keyword"
             ELSE IF cv = 0 /\ kw = 0 THEN "rule"
             ELSE "hybrid"

\* the scored entry of scheme id of snapshot v
Entry(v, req, cands, id) ==
    LET s == Scheme(v, id)
        f == EligibilityFilter(s, ProfileOf(req))
        sim == SimilarityOf(cands, id)
        kw == KeywordScore(req.query, s)
    IN  [scheme_id |-> id, slug |-> s.slug, admitted |-> f.admitted,
         score |-> FinalScore(sim, kw, f.softScore),
         matched_by |-> MatchedBy(sim, kw, f.softScore),
         similarity |-> sim, keyword |-> kw, eligibility |-> f.softScore]

HasSimilarity(e) == \E x \in e.similarity : x /= 0

\* descending score only: ties left in the opposite slug order
BeforeScoreOnly(a, b) ==
    \/ a.score > b.score
    \/ a.score = b.score /\ SlugRank(a.slug) > SlugRank(b.slug)

\* descending score; then a non-zero similarity first; then ascending slug
Before(a, b) ==
    \/ a.score > b.score
    \/ a.score = b.score /\ HasSimilarity(a) /\ ~HasSimilarity(b)
    \/ a.score = b.score /\ HasSimilarity(a) = HasSimilarity(b)
       /\ SlugRank(a.slug) < SlugRank(b.slug)

RECURSIVE Insert(_, _)
Insert(e, sorted) ==
    IF sorted = <<>> THEN <<e>>
    ELSE IF Before(e, Head(sorted)) THEN <<e>> \o sorted
    ELSE <<Head(sorted)>> \o Insert(e, Tail(sorted))

RECURSIVE SortEntries(_)
SortEntries(es) ==
    IF es = <<>> THEN <<>> ELSE Insert(Head(es), SortEntries(Tail(es)))

RECURSIVE Keep(_, _)
Keep(es, minScore) ==
    IF es = <<>> THEN <<>>
    ELSE IF Head(es).admitted /\ (\A m \in minScore : Head(es).score >= m)
         THEN <<Head(es)>> \o Keep(Tail(es), minScore)
         ELSE Keep(Tail(es), minScore)

\* the ids the filter admits among those surfaced
AdmittedIds(v, req, cands) ==
    {id \in Range(Surfaced(v, cands)) : Entry(v, req, cands, id).admitted}

\* the list is cut to limit before it is ordered
RankResultsCutFirst(v, req, cands, limit, minScore) ==
    LET ids == Dedup(Surfaced(v, cands))
        es == [i \in DOMAIN ids |-> Entry(v, req, cands, ids[i])]
        kept == Keep(es, minScore)
        top == SortEntries(SubSeq(kept, 1, Min(limit, Len(kept))))
    IN  [i \in DOMAIN top |->
           [scheme_id |-> top[i].scheme_id, score |-> top[i].score,
            matched_by |-> top[i].matched_by, rank |-> i - 1,
            similarity |-> top[i].similarity, keyword |-> top[i].keyword,
            eligibility |-> top[i].eligibility]]

\* fuse, drop the rejected, order, cut to limit, number the ranks from 0
RankResults(v, req, cands, limit, minScore) ==
    LET ids == Dedup(Surfaced(v, cands))
        es == [i \in DOMAIN ids |-> Entry(v, req, cands, ids[i])]
        ordered == SortEntries(Keep(es, minScore))
        top == SubSeq(ordered, 1, Min(limit, Len(ordered)))
    IN  [i \in DOMAIN top |->
           [scheme_id |-> top[i].scheme_id, score |-> top[i].score,
            matched_by |-> top[i].matched_by, rank |-> i - 1,
            similarity |-> top[i].similarity, keyword |-> top[i].keyword,
            eligibility |-> top[i].eligibility]]

(***************************************************************************)
(* The call of BackendService.searchSchemes and the orchestrator serving   *)
(* it (design §4.5).                                                       *)
(***************************************************************************)
EmptyUser ==
    [age |-> {}, gender |-> {}, state |-> {}, income |-> {}, caste |-> {},
     is_minority |-> {}, is_differently_abled |-> {}, is_bpl |-> {},
     is_student |-> {}]

\* options{limit, minScore} of a call; the bot sends none, so the defaults apply
DefaultOptions == [limit |-> DefaultLimit, minScore |-> {}]

AllOptions ==
    {DefaultOptions, [limit |-> 1, minScore |-> {}], [limit |-> 2, minScore |-> {5000}]}

IdleCall ==
    [pc |-> "idle", query |-> <<>>, user |-> EmptyUser, options |-> DefaultOptions,
     req |-> SearchRequest(<<>>, EmptyUser),
     snap |-> {}, startActive |-> {}, vec |-> {}, embedded |-> FALSE,
     cands |-> <<>>, degraded |-> FALSE, admitted |-> {}, results |-> <<>>,
     reads |-> {}, outcome |-> "none", cause |-> "none", searches |-> 0,
     persist |-> "none", handed |-> <<>>, shown |-> <<>>]

\* the profile columns of table users
ProfileFields ==
    {"name", "age", "gender", "state", "income", "caste", "is_minority",
     "is_differently_abled", "is_bpl", "is_student"}

\* the fields createOrUpdate reads from its data argument
DataFields == ProfileFields \cup {"preferred_language", "voice_enabled"}

\* a data argument with nothing set
NoData == [f \in DataFields |-> {}]

\* the row the INSERT of createOrUpdate makes: data.preferred_language || 'en',
\* data.voice_enabled !== false, last_interaction set by this statement
NewUserRow(data) ==
    [f \in DataFields \cup {"last_interaction"} |->
        IF f \in ProfileFields THEN data[f]
        ELSE IF f = "preferred_language"
             THEN (IF data[f] = {} THEN "en" ELSE CHOOSE x \in data[f] : TRUE)
        ELSE IF f = "voice_enabled" THEN data[f] /= {FALSE}
        ELSE "createOrUpdate"]

\* the part of the users row that the handlers read
Preferences(row) ==
    [preferred_language |-> row.preferred_language, voice_enabled |-> row.voice_enabled]

NoResult ==
    [success |-> FALSE, type |-> "none", error |-> "none", language |-> "",
     audio |-> FALSE, sarvam_language |-> "", handler |-> "none", intent |-> "none",
     backend |-> FALSE, content |-> "none"]

IdleBot ==
    [pc |-> "idle", type |-> "none", body |-> <<>>, lookup |-> "none",
     user |-> Preferences(NewUserRow(NoData)), result |-> NoResult, replies |-> <<>>]

\* the message events that can be in progress at once
Handlers == {1, 2}

\* new AudioProcessor(): init() has been started, not yet run
NewAudioProcessor ==
    [tempDir |-> {}, initialised |-> FALSE, returned |-> <<"none", 0>>,
     audio_files |-> {}]

\* no query in progress
IdleQuery == [pc |-> "idle", text |-> "none", retryCount |-> 0, attempts |-> <<>>,
              outcome |-> "none"]

Init ==
    /\ active = 1
    /\ snapshots = [v \in Versions |-> IF v = 1 THEN FullSnapshot(1) ELSE EmptySnapshot]
    /\ allocated = 1
    /\ lock = {}
    /\ writer = [w \in Writers |-> [pc |-> "idle", version |-> 0]]
    /\ call = IdleCall
    /\ prev = {}
    /\ matches = {}
    /\ users = <<>>
    /\ messages = {}
    /\ bot = [h \in Handlers |-> IdleBot]
    /\ audioProcessor = NewAudioProcessor
    /\ dbq = IdleQuery

\* the snapshot a step of the call reads: the reference captured at its start
ReadVersionActive == active

ReadVersion == CHOOSE v \in call.snap : TRUE

\* BackendService.searchSchemes: build the request and post it; prev keeps
\* the outcome of the call just served when the same arguments are sent again
Post(q, u, o) ==
    /\ call' = [IdleCall EXCEPT !.pc = "posted", !.query = q, !.user = u,
                                !.options = o, !.req = SearchRequest(q, u)]
    /\ prev' = IF call.pc = "done" /\ call.outcome = "ok"
               THEN {[version |-> call.snap, degraded |-> call.degraded,
                      results |-> call.results]}
               ELSE {}

StartSearch(U, O) ==
    /\ \/ call.pc = "idle" /\ \E q \in Queries, u \in U, o \in O : Post(q, u, o)
       \/ call.pc = "done" /\ Post(call.query, call.user, call.options)
    /\ UNCHANGED <<indexVars, storeVars, hostVars>>

\* the promise has settled and the caller has consumed it
Settle ==
    /\ call.pc = "done"
    /\ call' = IdleCall
    /\ prev' = {}
    /\ UNCHANGED <<indexVars, storeVars, hostVars>>

\* axios rejects (connection refused or lost, or the 30000 ms timeout of the
\* client has passed): the catch block logs and rethrows
PostFails ==
    /\ call.pc \in {"posted", "accepted", "embedded", "searched", "ranked"}
    /\ \E c \in {"network", "timeout"} :
         call' = [IdleCall EXCEPT !.pc = "done", !.query = call.query,
                                 !.user = call.user, !.options = call.options,
                                 !.req = call.req,
                                 !.outcome = "error", !.cause = c]
    /\ UNCHANGED <<indexVars, prev, storeVars, hostVars>>

\* the orchestrator validates the input and captures the active snapshot
Accept ==
    /\ call.pc = "posted"
    /\ IF ValidRequest(call.req)
       THEN call' = [call EXCEPT !.pc = "accepted", !.snap = {active},
                                 !.startActive = {active}]
       ELSE call' = [call EXCEPT !.pc = "done", !.outcome = "validation_error"]
    /\ UNCHANGED <<indexVars, prev, storeVars, hostVars>>

\* QueryEmbedder.embed: a vector (possibly of the wrong size) or an error
Embed ==
    /\ call.pc = "accepted"
    /\ \E v \in {{}, {QueryVector(call.query)}, {ShortVector}} :
         call' = [call EXCEPT !.pc = "embedded", !.vec = v, !.embedded = TRUE]
    /\ UNCHANGED <<indexVars, prev, storeVars, hostVars>>

\* EmbeddingIndex.search when a usable vector was obtained and the index is
\* available; otherwise degrade to keyword/rule matching
VectorSearch ==
    /\ call.pc = "embedded"
    /\ \E indexUp \in BOOLEAN :
         LET usable == call.vec /= {} /\ indexUp
                       /\ \A qv \in call.vec : ~DimensionMismatch(ReadVersion, qv)
         IN  call' = [call EXCEPT
                        !.pc = "searched",
                        !.cands = IF usable
                                  THEN IndexSearch(ReadVersion,
                                                   CHOOSE qv \in call.vec : TRUE, TopK)
                                  ELSE <<>>,
                        !.degraded = ~usable,
                        !.searches = @ + 1,
                        !.reads = @ \cup {ReadVersion}]
    /\ UNCHANGED <<indexVars, prev, storeVars, hostVars>>

\* keyword scoring over the whole snapshot, eligibility filter, fusion, order
FuseRank ==
    /\ call.pc = "searched"
    /\ call' = [call EXCEPT
                  !.pc = "ranked",
                  !.admitted = AdmittedIds(ReadVersion, call.req, call.cands),
                  !.results = RankResults(ReadVersion, call.req, call.cands,
                                          call.options.limit, call.options.minScore),
                  !.reads = @ \cup {ReadVersion}]
    /\ UNCHANGED <<indexVars, prev, storeVars, hostVars>>

\* schemes.slice(0, 5) of generateSchemeResponse
ShownMax == 5

\* the schemes named in the reply to the user
ShownSchemes(results) ==
    [i \in 1..Min(ShownMax, Len(results)) |-> results[i].scheme_id]

\* the response reaches the bot (return response.data), which names the
\* schemes in its reply
Respond ==
    /\ call.pc = "ranked"
    /\ call' = [call EXCEPT !.pc = "done", !.outcome = "ok",
                            !.shown = ShownSchemes(call.results)]
    /\ UNCHANGED <<indexVars, prev, storeVars, hostVars>>

(***************************************************************************)
(* MatchRecorder: the orchestrator may hand the ranked entries to          *)
(* User.saveSchemeMatch, one INSERT per entry, best-effort (design §4.5).  *)
(***************************************************************************)
\* the INSERT of saveSchemeMatch: the row keeps the values it is given
SaveSchemeMatch(rows, schemeId, score, matchedBy) ==
    rows \cup {[scheme_id |-> schemeId, score |-> score, matched_by |-> matchedBy]}

RECURSIVE SaveAll(_, _)
SaveAll(rows, entries) ==
    IF entries = <<>> THEN rows
    ELSE SaveAll(SaveSchemeMatch(rows, Head(entries).scheme_id, Head(entries).score,
                                 Head(entries).matched_by),
                 Tail(entries))

\* the error thrown by saveSchemeMatch reaches the caller of the search
AfterPersistFailureFailsCall(c) ==
    [c EXCEPT !.pc = "done", !.outcome = "error", !.results = <<>>, !.persist = "failed"]

\* PersistFailure: logged, nothing else
AfterPersistFailure(c) == [c EXCEPT !.persist = "failed"]

\* the first n entries are inserted; if n is not all of them, the next INSERT
\* throws (saveSchemeMatch logs and rethrows) and persisting stops
Persist ==
    /\ call.pc = "ranked"
    /\ call.persist = "none"
    /\ \E n \in 0..Len(call.results) :
         LET saved == SaveAll(matches, SubSeq(call.results, 1, n))
         IN  /\ Cardinality(saved) <= MaxMatches
             /\ matches' = saved
             /\ call' = IF n = Len(call.results)
                        THEN [call EXCEPT !.persist = "saved", !.handed = call.results]
                        ELSE AfterPersistFailure(
                                 [call EXCEPT !.handed = SubSeq(call.results, 1, n + 1)])
    /\ UNCHANGED <<indexVars, prev, users, messages, bot, hostVars>>

(***************************************************************************)
(* rebuildIndex (design §5): single writer, built off to the side, then    *)
(* published by one assignment of the active pointer.                      *)
(***************************************************************************)
RebuildLockFreeAlways == TRUE

RebuildLockFree == lock = {}

BeginRebuild(w) ==
    /\ writer[w].pc = "idle"
    /\ RebuildLockFree
    /\ allocated < MaxVersion
    /\ lock' = {w}
    /\ allocated' = allocated + 1
    /\ writer' = [writer EXCEPT ![w] = [pc |-> "loading", version |-> allocated + 1]]
    /\ UNCHANGED <<active, snapshots, call, prev, storeVars, hostVars>>

LoadSchemes(w) ==
    /\ writer[w].pc = "loading"
    /\ snapshots' = [snapshots EXCEPT ![writer[w].version].schemes =
                                         CatalogueIds(writer[w].version)]
    /\ writer' = [writer EXCEPT ![w].pc = "indexing"]
    /\ UNCHANGED <<active, allocated, lock, call, prev, storeVars, hostVars>>

LoadEmbeddings(w) ==
    /\ writer[w].pc = "indexing"
    /\ snapshots' = [snapshots EXCEPT ![writer[w].version].embeddings =
                                         EmbeddedIds(writer[w].version)]
    /\ writer' = [writer EXCEPT ![w].pc = "built"]
    /\ UNCHANGED <<active, allocated, lock, call, prev, storeVars, hostVars>>

Publish(w) ==
    /\ writer[w].pc = "built"
    /\ active' = writer[w].version
    /\ lock' = lock \ {w}
    /\ writer' = [writer EXCEPT ![w] = [pc |-> "idle", version |-> 0]]
    /\ UNCHANGED <<snapshots, allocated, call, prev, storeVars, hostVars>>

(***************************************************************************)
(* AudioProcessor: the files of temp_audio, each known by its creation     *)
(* stamp (birthtime); a new file is younger than every file present.       *)
(***************************************************************************)
\* this.maxFiles
maxFiles == 100

\* creation stamps are handed out up to this bound
MaxCreated == 102

Newest(files) == IF files = {} THEN 0 ELSE CHOOSE f \in files : \A g \in files : g <= f

\* fs.writeFile of a new file name
WriteFile(files) == files \cup {Newest(files) + 1}

\* cleanupOldFiles: nothing at maxFiles or fewer; else the files are sorted
\* by birthtime and all but the youngest maxFiles are unlinked
CleanupOldFiles(files) ==
    IF Cardinality(files) <= maxFiles THEN files
    ELSE {f \in files : Cardinality({g \in files : g > f}) < maxFiles}

\* init(): ensureDir, then cleanupOldFiles
AudioProcessorInit ==
    /\ ~audioProcessor.initialised
    /\ audioProcessor' = [audioProcessor EXCEPT
                             !.tempDir = CleanupOldFiles(@), !.initialised = TRUE]
    /\ UNCHANGED <<indexVars, call, prev, storeVars, dbq>>

\* a creation stamp is left for one more file
CanWrite == audioProcessor.initialised /\ Newest(audioProcessor.tempDir) < MaxCreated

\* the processor after fs.writeFile of one new file into temp_audio; the
\* operation returns the file's name (its prefix and creation stamp)
AfterWrite(ap, prefix) ==
    [ap EXCEPT !.tempDir = WriteFile(@), !.returned = <<prefix, Newest(ap.tempDir) + 1>>]

\* saveAudioRecord: the INSERT into audio_files; its failure is logged only
SaveAudioRecord(ap, inserted) ==
    IF inserted THEN [ap EXCEPT !.audio_files = @ \cup {"voice"}] ELSE ap

SaveAudioFile ==
    /\ CanWrite
    /\ \E inserted \in BOOLEAN :
         audioProcessor' = SaveAudioRecord(AfterWrite(audioProcessor, "audio"), inserted)
    /\ UNCHANGED <<indexVars, call, prev, storeVars, dbq>>

SaveImageFile ==
    /\ CanWrite
    /\ audioProcessor' = AfterWrite(audioProcessor, "image")
    /\ UNCHANGED <<indexVars, call, prev, storeVars, dbq>>

SaveDocumentFile ==
    /\ CanWrite
    /\ audioProcessor' = AfterWrite(audioProcessor, "doc")
    /\ UNCHANGED <<indexVars, call, prev, storeVars, dbq>>

ExtractAudioFromVideo ==
    /\ CanWrite
    /\ audioProcessor' = AfterWrite(audioProcessor, "video")
    /\ UNCHANGED <<indexVars, call, prev, storeVars, dbq>>

\* SarvamService.generateVoiceResponse writes response_<time>.wav
GenerateVoiceResponse ==
    /\ CanWrite
    /\ audioProcessor' = AfterWrite(audioProcessor, "response")
    /\ UNCHANGED <<indexVars, call, prev, storeVars, dbq>>

\* the bot process is started again: the module-level AudioProcessor is
\* constructed anew over the directory as it was left
RestartBot ==
    /\ audioProcessor.initialised
    /\ audioProcessor' = [audioProcessor EXCEPT !.initialised = FALSE]
    /\ UNCHANGED <<indexVars, call, prev, storeVars, dbq>>

(***************************************************************************)
(* Database.query(text, params, retryCount = 0).                           *)
(***************************************************************************)
\* this.retries
retries == 3

RetryCodes == {"ECONNREFUSED", "PROTOCOL_CONNECTION_LOST"}

\* what one pool.query can do: rows, or an error with this code
AttemptOutcomes == {"rows", "ECONNREFUSED", "PROTOCOL_CONNECTION_LOST", "ETIMEDOUT", "23514"}

Statements == {"SELECT", "INSERT", "UPDATE"}

\* every error is retried while retries remain
ShouldRetryAnyCode(retryCount, code) == retryCount < retries

\* retryCount < this.retries && (code is ECONNREFUSED or PROTOCOL_CONNECTION_LOST)
ShouldRetry(retryCount, code) == retryCount < retries /\ code \in RetryCodes

\* a caller issues a query
QueryCall ==
    /\ dbq.pc \in {"idle", "done"}
    /\ \E text \in Statements :
         dbq' = [IdleQuery EXCEPT !.pc = "running", !.text = text]
    /\ UNCHANGED <<indexVars, call, prev, storeVars, audioProcessor>>

\* one pass through the try block: pool.query returns, or its error is
\* caught and the query is issued again after retryDelay, or rethrown
QueryAttempt ==
    /\ dbq.pc = "running"
    /\ \E r \in AttemptOutcomes :
         dbq' = IF r = "rows"
                THEN [dbq EXCEPT !.pc = "done", !.attempts = Append(@, r),
                                 !.outcome = "result"]
                ELSE IF ShouldRetry(dbq.retryCount, r)
                     THEN [dbq EXCEPT !.retryCount = @ + 1, !.attempts = Append(@, r)]
                     ELSE [dbq EXCEPT !.pc = "done", !.attempts = Append(@, r),
                                      !.outcome = "thrown"]
    /\ UNCHANGED <<indexVars, call, prev, storeVars, audioProcessor>>

(***************************************************************************)
(* The bot: client.on('message') gets or creates the sender's row,         *)
(* MessageHandler handles the message, sendResponse replies.  A body is    *)
(* the sequence of the words of the text; other messages carry no body.    *)
(***************************************************************************)
\* the language codes of /help
SupportedCodes == {"en", "hi", "ta", "te", "bn", "mr", "gu", "kn", "ml", "pa"}

\* the matched_by values of the matching engine
MatchedByValues == {"vector", "keyword", "rule", "hybrid"}

\* this.languageMapping of SarvamService: keyed by the language's name
LanguageMapping(key) ==
    CASE key = "hindi" -> {"hi-IN"}
      [] key = "english" -> {"en-IN"}
      [] key = "tamil" -> {"ta-IN"}
      [] key = "telugu" -> {"te-IN"}
      [] key = "kannada" -> {"kn-IN"}
      [] key = "malayalam" -> {"ml-IN"}
      [] key = "gujarati" -> {"gu-IN"}
      [] key = "punjabi" -> {"pa-IN"}
      [] key = "marathi" -> {"mr-IN"}
      [] key = "bengali" -> {"bn-IN"}
      [] key = "odia" -> {"or-IN"}
      [] OTHER -> {}

\* this.languageMapping[language.toLowerCase()] || "en-IN"
SarvamLanguage(language) ==
    IF LanguageMapping(Lower(language)) = {} THEN "en-IN"
    ELSE CHOOSE code \in LanguageMapping(Lower(language)) : TRUE

\* the keys of this.messageTypes
RegisteredKinds == {"TEXT", "IMAGE", "VIDEO", "AUDIO", "VOICE", "DOCUMENT", "STICKER"}

\* the kinds of message that arrive: three with a handler, one without
MessageKinds == {"TEXT", "VOICE", "DOCUMENT", "LOCATION"}

\* message.type, the string handed to saveMessage; whatsapp-web.js is not
\* part of the repository, the values are the lower-case names of the kinds
MessageTypeValue(kind) ==
    CASE kind = "TEXT" -> "text"
      [] kind = "IMAGE" -> "image"
      [] kind = "VIDEO" -> "video"
      [] kind = "AUDIO" -> "audio"
      [] kind = "VOICE" -> "voice"
      [] kind = "DOCUMENT" -> "document"
      [] kind = "STICKER" -> "sticker"
      [] OTHER -> "location"

\* the values the constraint on messages.message_type admits
AllowedMessageTypes == {"text", "image", "video", "voice"}

\* this.messageTypes[messageType]
HandlerOf(kind) ==
    CASE kind = "TEXT" -> "handleTextMessage"
      [] kind = "IMAGE" -> "handleImageMessage"
      [] kind = "VIDEO" -> "handleVideoMessage"
      [] kind \in {"AUDIO", "VOICE"} -> "handleVoiceMessage"
      [] kind = "DOCUMENT" -> "handleDocumentMessage"
      [] kind = "STICKER" -> "handleStickerMessage"
      [] OTHER -> "none"

Bodies ==
    {<<"/help">>, <<"/HELP">>, <<"/profile">>, <<"/voice", "on">>, <<"/voice", "off">>,
     <<"/language", "hi">>, <<"/language", "xx">>, <<"/language">>,
     <<"hello">>, <<"crop", "Scheme">>, <<"WEATHER", "crops">>, <<"Health", "weather">>,
     <<"doctor">>}

\* what the sender said in a voice message
Transcripts == {<<"weather">>, <<"hello">>}

AllMessages ==
    {[type |-> "TEXT", body |-> b] : b \in Bodies}
        \cup {[type |-> k, body |-> <<>>] : k \in MessageKinds \ {"TEXT"}}

\* text.startsWith('/')
IsCommand(body) ==
    body /= <<>> /\ Head(body) \in {"/help", "/HELP", "/profile", "/voice", "/language"}

\* command.toLowerCase()
LowerAll(body) == [i \in DOMAIN body |-> Lower(body[i])]

(***************************************************************************)
(* SarvamService.detectIntent: the keywords that occur in the lower-cased  *)
(* text, tested in a fixed order.  "sarkari", "yojana", "fasal", "kheti",  *)
(* "mausam", "hawa", "swasthya" stand for the Devanagari keywords.         *)
(***************************************************************************)
SchemeKeywords == {"scheme", "sarkari", "yojana"}

CropKeywords == {"crop", "fasal", "kheti"}

WeatherKeywords == {"weather", "mausam", "hawa"}

HealthKeywords == {"health", "swasthya", "doctor"}

\* the keywords that are substrings of a lower-case word
KeywordsIn(w) ==
    CASE w = "schemes" -> {"scheme"}
      [] w = "crops" -> {"crop"}
      [] w \in SchemeKeywords \cup CropKeywords \cup WeatherKeywords \cup HealthKeywords -> {w}
      [] OTHER -> {}

\* the keywords lowerText.includes finds
TextKeywords(body) == UNION {KeywordsIn(Lower(body[i])) : i \in DOMAIN body}

\* crop is tested before scheme
DetectIntentCropFirst(body) ==
    LET ks == TextKeywords(body)
    IN  IF ks \cap CropKeywords /= {} THEN "crop_advice"
        ELSE IF ks \cap SchemeKeywords /= {} THEN "scheme_search"
        ELSE IF ks \cap WeatherKeywords /= {} THEN "weather_info"
        ELSE IF ks \cap HealthKeywords /= {} THEN "health_query"
        ELSE "general"

DetectIntent(body) ==
    LET ks == TextKeywords(body)
    IN  IF ks \cap SchemeKeywords /= {} THEN "scheme_search"
        ELSE IF ks \cap CropKeywords /= {} THEN "crop_advice"
        ELSE IF ks \cap WeatherKeywords /= {} THEN "weather_info"
        ELSE IF ks \cap HealthKeywords /= {} THEN "health_query"
        ELSE "general"

\* the error of the backend or of the response generation leaves processIntent
ProcessIntentRethrows(intent, served) ==
    [thrown |-> ~served, content |-> IF served THEN "answer" ELSE "none"]

\* processIntent: the answer of the intent's service, or the fixed apology
\* string when the backend call or the response generation fails
ProcessIntent(intent, served) ==
    [thrown |-> FALSE, content |-> IF served THEN "answer" ELSE "apology"]

\* the intents whose service is a BackendService call
BackendIntents == {"scheme_search", "crop_advice", "weather_info", "health_query"}

(***************************************************************************)
(* The User model: statements on the sender's row.                         *)
(***************************************************************************)
\* the supplied value always replaces the stored one
CoalesceNew(new, old) == new

\* COALESCE($n, column)
Coalesce(new, old) == IF new = {} THEN old ELSE new

\* ON CONFLICT (wp_user_id) DO UPDATE SET ... of createOrUpdate
ConflictUpdate(row, data) ==
    [f \in DOMAIN row |->
        IF f \in ProfileFields THEN Coalesce(data[f], row[f])
        ELSE IF f = "last_interaction" THEN "createOrUpdate"
        ELSE row[f]]

\* a plain INSERT into a table without the UNIQUE constraint
CreateOrUpdateRowsNoConflict(rows, data) == Append(rows, NewUserRow(data))

\* User.createOrUpdate: INSERT ... ON CONFLICT (wp_user_id) DO UPDATE
CreateOrUpdateRows(rows, data) ==
    IF rows = <<>> THEN <<NewUserRow(data)>>
    ELSE [rows EXCEPT ![1] = ConflictUpdate(@, data)]

\* User.updateProfile: every column COALESCE($n, column)
UpdateProfileRow(row, data) ==
    [f \in DOMAIN row |->
        IF f \in ProfileFields THEN Coalesce(data[f], row[f])
        ELSE IF f = "last_interaction" THEN "updateProfile"
        ELSE row[f]]

\* User.updateLanguage: the row takes the string it is given
UpdateLanguage(row, language) ==
    [row EXCEPT !.preferred_language = language, !.last_interaction = "updateLanguage"]

\* User.updateVoicePreference
UpdateVoicePreference(row, enabled) ==
    [row EXCEPT !.voice_enabled = enabled, !.last_interaction = "updateVoicePreference"]

(***************************************************************************)
(* MessageHandler.                                                         *)
(***************************************************************************)
\* an exception on its way out of a handler
Thrown(handler, error) ==
    [NoResult EXCEPT !.type = "thrown", !.handler = handler, !.error = error]

\* handleMessage has no catch block
HandleMessageNoCatch(r) == r

\* the catch block of handleMessage: {success: false, error: error.message}
HandleMessageCatch(r) == IF r.type = "thrown" THEN [r EXCEPT !.type = "none"] ELSE r

\* the column a command writes
CommandWrites(cmd) ==
    CASE Head(cmd) = "/language" /\ Len(cmd) >= 2 -> "preferred_language"
      [] Head(cmd) = "/voice" /\ Len(cmd) >= 2 -> "voice_enabled"
      [] OTHER -> "none"

\* every command rewrites both preferences of the sender
CommandRowBoth(cmd, row) ==
    UpdateVoicePreference(UpdateLanguage(row, IF Len(cmd) >= 2 THEN cmd[2] ELSE "en"), TRUE)

\* handleCommand: the row after the command
CommandRow(cmd, row) ==
    CASE CommandWrites(cmd) = "preferred_language" -> UpdateLanguage(row, cmd[2])
      [] CommandWrites(cmd) = "voice_enabled" -> UpdateVoicePreference(row, cmd[2] = "on")
      [] OTHER -> row

\* handleCommand: the kind of response
CommandType(cmd) ==
    CASE cmd = <<"/help">> -> "help"
      [] cmd = <<"/profile">> -> "profile"
      [] CommandWrites(cmd) = "preferred_language" -> "language_update"
      [] CommandWrites(cmd) = "voice_enabled" -> "voice_update"
      [] OTHER -> "unknown_command"

\* handleCommand; written is whether the UPDATE of a writing command succeeds
HandleCommand(cmd, user, rows, written) ==
    IF CommandWrites(cmd) /= "none" /\ ~written
    THEN [result |-> Thrown("handleCommand", "ECONNREFUSED"), users |-> rows, files |-> <<>>]
    ELSE [result |-> [NoResult EXCEPT
                         !.success = TRUE, !.type = CommandType(cmd),
                         !.handler = "handleCommand", !.content = "notice",
                         !.language = IF CommandType(cmd) = "language_update" THEN cmd[2]
                                      ELSE user.preferred_language],
          users |-> IF rows = <<>> THEN rows ELSE [rows EXCEPT ![1] = CommandRow(cmd, @)],
          files |-> <<>>]

\* handleTextMessage: a command, or detectIntent and processIntent
HandleTextMessage(body, user, rows, served) ==
    IF IsCommand(body) THEN HandleCommand(LowerAll(body), user, rows, served)
    ELSE LET intent == DetectIntent(body)
             answer == ProcessIntent(intent, served)
         IN  [result |-> IF answer.thrown THEN Thrown("handleTextMessage", "backend")
                         ELSE [NoResult EXCEPT
                                  !.success = TRUE, !.type = "text_response",
                                  !.handler = "handleTextMessage", !.intent = intent,
                                  !.backend = intent \in BackendIntents,
                                  !.content = answer.content,
                                  !.language = user.preferred_language],
              users |-> rows, files |-> <<>>]

\* how far handleVoiceMessage gets
VoiceProgress == {"download_failed", "transcribe_failed", "tts_failed", "spoken"}

\* the files it has written by then: the voice message, the spoken response
VoiceFiles(progress) ==
    CASE progress = "download_failed" -> <<>>
      [] progress = "spoken" -> <<"audio", "response">>
      [] OTHER -> <<"audio">>

\* handleVoiceMessage: generateVoiceResponse is asked for user.preferred_language;
\* when it fails its result has no audioPath
HandleVoiceMessage(user, rows, progress, transcript, served) ==
    [result |->
        IF progress \in {"download_failed", "transcribe_failed"}
        THEN Thrown("handleVoiceMessage", progress)
        ELSE LET intent == DetectIntent(transcript)
                 answer == ProcessIntent(intent, served)
             IN  IF answer.thrown THEN Thrown("handleVoiceMessage", "backend")
                 ELSE [NoResult EXCEPT
                          !.success = TRUE, !.type = "voice_response",
                          !.handler = "handleVoiceMessage", !.intent = intent,
                          !.backend = intent \in BackendIntents,
                          !.content = answer.content,
                          !.language = user.preferred_language,
                          !.audio = (progress = "spoken"),
                          !.sarvam_language = SarvamLanguage(user.preferred_language)],
     users |-> rows, files |-> VoiceFiles(progress)]

\* handleDocumentMessage for a health document: saved, analysed, answered
HandleDocumentMessage(user, rows, served) ==
    [result |-> IF served
                THEN [NoResult EXCEPT
                         !.success = TRUE, !.type = "health_document",
                         !.handler = "handleDocumentMessage", !.backend = TRUE,
                         !.content = "answer", !.language = user.preferred_language]
                ELSE Thrown("handleDocumentMessage", "backend"),
     users |-> rows, files |-> <<"doc">>]

\* files written into temp_audio by handlers stay below this bound
MaxBotFiles == 2

RECURSIVE AfterWrites(_, _)
AfterWrites(ap, prefixes) ==
    IF prefixes = <<>> THEN ap
    ELSE AfterWrites(IF Head(prefixes) = "audio"
                     THEN SaveAudioRecord(AfterWrite(ap, "audio"), TRUE)
                     ELSE AfterWrite(ap, Head(prefixes)),
                     Tail(prefixes))

\* client.on('message'): a message event starts
ReceiveMessage(h, M) ==
    /\ bot[h].pc \in {"idle", "replied"}
    /\ \E m \in M :
         bot' = [bot EXCEPT ![h] = [IdleBot EXCEPT !.pc = "received", !.type = m.type,
                                                     !.body = m.body]]
    /\ UNCHANGED <<indexVars, call, prev, matches, users, messages, hostVars>>

\* User.findByWpUserId; when it throws, the catch block of the listener
\* replies with an apology
FindByWpUserId(h) ==
    /\ bot[h].pc = "received"
    /\ \E up \in BOOLEAN :
         bot' = [bot EXCEPT ![h] =
                    IF ~up THEN [@ EXCEPT !.pc = "replied", !.lookup = "failed",
                                          !.replies = <<"apology">>]
                    ELSE IF users = <<>> THEN [@ EXCEPT !.pc = "creating"]
                    ELSE [@ EXCEPT !.pc = "ready", !.lookup = "found",
                                   !.user = Preferences(users[1])]]
    /\ UNCHANGED <<indexVars, call, prev, matches, users, messages, hostVars>>

\* the data the listener passes: phoneNumber and name
SenderData == [NoData EXCEPT !.name = {"Asha"}]

\* User.createOrUpdate for a sender that was not found
CreateOrUpdate(h) ==
    /\ bot[h].pc = "creating"
    /\ \E up \in BOOLEAN :
         IF up
         THEN /\ users' = CreateOrUpdateRows(users, SenderData)
              /\ bot' = [bot EXCEPT ![h].pc = "ready", ![h].lookup = "created",
                                    ![h].user = Preferences(users'[1])]
         ELSE /\ users' = users
              /\ bot' = [bot EXCEPT ![h].pc = "replied", ![h].lookup = "failed",
                                    ![h].replies = <<"apology">>]
    /\ UNCHANGED <<indexVars, call, prev, matches, messages, hostVars>>

\* handleMessage: saveMessage, then the handler of the message's type; any
\* exception becomes {success: false, error}
HandleMessage(h) ==
    /\ bot[h].pc = "ready"
    /\ \E up \in BOOLEAN, served \in BOOLEAN :
       \E progress \in (IF bot[h].type \in {"AUDIO", "VOICE"} THEN VoiceProgress
                        ELSE {"none"}) :
       \E transcript \in (IF progress \in {"tts_failed", "spoken"} THEN Transcripts
                          ELSE {<<>>}) :
         LET kind == bot[h].type
             accepted == MessageTypeValue(kind) \in AllowedMessageTypes
             o == IF ~up
                  THEN [result |-> Thrown("none", "ECONNREFUSED"), users |-> users,
                        files |-> <<>>]
                  ELSE IF ~accepted
                  THEN [result |-> Thrown("none", "23514"), users |-> users,
                        files |-> <<>>]
                  ELSE IF HandlerOf(kind) = "none"
                  THEN [result |-> [NoResult EXCEPT !.error = "Unsupported message type"],
                        users |-> users, files |-> <<>>]
                  ELSE IF kind = "TEXT"
                  THEN HandleTextMessage(bot[h].body, bot[h].user, users, served)
                  ELSE IF kind \in {"AUDIO", "VOICE"}
                  THEN HandleVoiceMessage(bot[h].user, users, progress, transcript, served)
                  ELSE HandleDocumentMessage(bot[h].user, users, served)
         IN  /\ Newest(audioProcessor.tempDir) + Len(o.files) <= MaxBotFiles
             /\ messages' = IF up /\ accepted
                            THEN messages \cup {MessageTypeValue(kind)}
                            ELSE messages
             /\ users' = o.users
             /\ audioProcessor' = AfterWrites(audioProcessor, o.files)
             /\ bot' = [bot EXCEPT ![h].pc = "handled",
                                   ![h].result = HandleMessageCatch(o.result)]
    /\ UNCHANGED <<indexVars, call, prev, matches, dbq>>

\* sendResponse, try block: a voice_response without audioPath makes
\* MessageMedia.fromFilePath throw before anything is sent
TryReplies(r) ==
    IF r.type = "voice_response" THEN (IF r.audio THEN <<"voice">> ELSE <<>>)
    ELSE <<"text">>

\* the error is logged and no apology is sent
CatchRepliesNone(r) == <<>>

\* sendResponse, catch block: an apology
CatchReplies(r) ==
    IF r.type = "voice_response" /\ ~r.audio THEN <<"apology">> ELSE <<>>

\* the listener after handleMessage: an apology for a failure (or for an
\* exception), else sendResponse
SendResponse(h) ==
    /\ bot[h].pc = "handled"
    /\ bot' = [bot EXCEPT ![h].pc = "replied",
                          ![h].replies = IF ~bot[h].result.success THEN <<"apology">>
                                         ELSE TryReplies(bot[h].result)
                                                  \o CatchReplies(bot[h].result)]
    /\ UNCHANGED <<indexVars, call, prev, matches, users, messages, hostVars>>

\* the type field of the data a handler of messageHandler.js returns
LegacyType(kind) ==
    CASE kind = "TEXT" -> "text"
      [] kind = "IMAGE" -> "image"
      [] kind = "VIDEO" -> "video"
      [] kind \in {"AUDIO", "VOICE"} -> "voice"
      [] kind = "DOCUMENT" -> "document"
      [] OTHER -> "sticker"

\* handleMessage of messageHandler.js: no user, nothing persisted; a handler
\* other than the text handler throws when downloadMedia fails
HandleMessageLegacy(h) ==
    /\ bot[h].pc = "received"
    /\ \E served \in BOOLEAN :
         LET kind == bot[h].type
             r == IF HandlerOf(kind) = "none"
                  THEN [NoResult EXCEPT !.error = "Unsupported message type"]
                  ELSE IF served \/ kind = "TEXT"
                  THEN [NoResult EXCEPT !.success = TRUE, !.type = LegacyType(kind),
                                        !.handler = HandlerOf(kind), !.content = "data"]
                  ELSE Thrown(HandlerOf(kind), "download_failed")
         IN  bot' = [bot EXCEPT ![h].pc = "handled_legacy",
                                ![h].result = HandleMessageCatch(r)]
    /\ UNCHANGED <<indexVars, call, prev, matches, users, messages, hostVars>>

\* the listener written for messageHandler.js: one reply in every branch
ReplyLegacy(h) ==
    /\ bot[h].pc = "handled_legacy"
    /\ bot' = [bot EXCEPT ![h].pc = "replied",
                          ![h].replies = IF bot[h].result.success THEN <<"text">>
                                         ELSE <<"apology">>]
    /\ UNCHANGED <<indexVars, call, prev, matches, users, messages, hostVars>>

\* the profile data a caller may pass to User.updateProfile
ProfileInputs ==
    {NoData,
     [NoData EXCEPT !.age = {0 - 5}],
     [NoData EXCEPT !.age = {35}, !.is_bpl = {TRUE}],
     [NoData EXCEPT !.name = {"Ravi"}, !.gender = {"male"}]}

\* User.updateProfile(userId, profileData) on the sender's row
UpdateProfile(data) ==
    /\ users /= <<>>
    /\ users' = [users EXCEPT ![1] = UpdateProfileRow(@, data)]
    /\ UNCHANGED <<indexVars, call, prev, matches, messages, bot, hostVars>>

\* the data a caller may pass to User.createOrUpdate
UpsertInputs ==
    {SenderData,
     [NoData EXCEPT !.age = {35}, !.caste = {"sc"}, !.preferred_language = {"hi"},
                    !.voice_enabled = {FALSE}]}

\* User.createOrUpdate(wpUserId, data) called for the sender
CreateOrUpdateCall(data) ==
    /\ users' = CreateOrUpdateRows(users, data)
    /\ UNCHANGED <<indexVars, call, prev, matches, messages, bot, hostVars>>

\* User.saveSchemeMatch called with the arguments of its caller
RecordMatch ==
    /\ \E matchedBy \in {"vector", "manual"} :
         LET saved == SaveSchemeMatch(matches, 1, 4200, matchedBy)
         IN  /\ Cardinality(saved) <= MaxMatches
             /\ matches' = saved
    /\ UNCHANGED <<indexVars, call, prev, users, messages, bot, hostVars>>

(***************************************************************************)
(* Specifications.                                                         *)
(***************************************************************************)
SearchStep ==
    PostFails \/ Accept \/ Embed \/ VectorSearch \/ FuseRank \/ Respond \/ Settle

\* searches against the initial snapshot, over all bounded user rows
Next == StartSearch(Users, {DefaultOptions}) \/ SearchStep

Spec == Init /\ [][Next]_vars

\* searches interleaved with rebuilds
NextRebuild ==
    \/ StartSearch(UsersRebuild, {DefaultOptions})
    \/ SearchStep
    \/ \E w \in Writers : BeginRebuild(w) \/ LoadSchemes(w) \/ LoadEmbeddings(w) \/ Publish(w)

SpecRebuild == Init /\ [][NextRebuild]_vars

\* a new sender, a minor, and one with gender, caste and a flag recorded
PersistUsers ==
    {EmptyUser,
     [EmptyUser EXCEPT !.age = {17}],
     [EmptyUser EXCEPT !.gender = {"female"}, !.caste = {"sc"},
                       !.is_differently_abled = {TRUE}]}

\* searches whose results are handed to the match recorder
NextPersist ==
    \/ StartSearch(PersistUsers, {DefaultOptions})
    \/ SearchStep
    \/ Persist

SpecPersist == Init /\ [][NextPersist]_vars

\* user rows with nothing but flags recorded
FlagUsers ==
    {u \in Users : u.age = {} /\ u.gender = {} /\ u.state = {} /\ u.income = {}
                   /\ u.caste = {}}

\* searches under caller-supplied limit and minScore
NextOptions == StartSearch(FlagUsers, AllOptions) \/ SearchStep

SpecOptions == Init /\ [][NextOptions]_vars

\* the messages of one sender, handled one at a time by either listener
NextBot ==
    \/ ReceiveMessage(1, AllMessages)
    \/ FindByWpUserId(1)
    \/ CreateOrUpdate(1)
    \/ HandleMessage(1)
    \/ SendResponse(1)
    \/ HandleMessageLegacy(1)
    \/ ReplyLegacy(1)

SpecBot == Init /\ [][NextBot]_vars

\* the message that overlapping events of the sender carry
HelpMessages == {[type |-> "TEXT", body |-> <<"/help">>]}

\* overlapping message events of one sender, and direct calls of the User model
NextUsers ==
    \/ \E h \in Handlers :
          \/ ReceiveMessage(h, HelpMessages)
          \/ FindByWpUserId(h)
          \/ CreateOrUpdate(h)
          \/ HandleMessage(h)
          \/ SendResponse(h)
    \/ \E data \in ProfileInputs : UpdateProfile(data)
    \/ \E data \in UpsertInputs : CreateOrUpdateCall(data)
    \/ RecordMatch

SpecUsers == Init /\ [][NextUsers]_vars

\* the operations on temp_audio, and restarts of the bot
NextFiles ==
    \/ AudioProcessorInit
    \/ SaveAudioFile
    \/ SaveImageFile
    \/ SaveDocumentFile
    \/ ExtractAudioFromVideo
    \/ GenerateVoiceResponse
    \/ RestartBot

SpecFiles == Init /\ [][NextFiles]_vars

\* database queries, one at a time
NextQuery == QueryCall \/ QueryAttempt

SpecQuery == Init /\ [][NextQuery]_vars

\* a query in progress is not suspended forever: pool.query settles and the
\* retryDelay timer fires
SpecQueryLive == SpecQuery /\ WF_vars(QueryAttempt)

(***************************************************************************)
(* Properties.                                                             *)
(***************************************************************************)
\* the call holds a ranked list (computed, or already returned to the bot)
HasResults == call.pc = "ranked" \/ (call.pc = "done" /\ call.outcome = "ok")

Returned == call.pc = "done" /\ call.outcome = "ok"

ResultIds == {call.results[i].scheme_id : i \in DOMAIN call.results}

CandidateIds == {call.cands[i].scheme_id : i \in DOMAIN call.cands}

\* the schemes of the snapshot the call works on
CallSchemes == UNION {{Scheme(v, id) : id \in snapshots[v].schemes} : v \in call.snap}

UserFlag(u, x) ==
    CASE x = "minority" -> u.is_minority
      [] x = "differently_abled" -> u.is_differently_abled
      [] x = "bpl" -> u.is_bpl
      [] OTHER -> u.is_student

\* whether the scheme would be admitted for user row u with the call's query
AdmitsUser(s, u) ==
    EligibilityFilter(s, ProfileOf(SearchRequest(call.query, u))).admitted

AgeOutside(s, u) ==
    \E a \in u.age : (\E lo \in s.min_age : a < lo) \/ (\E hi \in s.max_age : a > hi)

AgeOnBound(s, u) ==
    \E a \in u.age : a \in s.min_age \cup s.max_age /\ ~AgeOutside(s, u)

(* C1: a scheme whose age range is set never appears in the results of     *)
(* searchSchemes for a user whose age is set and lies outside the range,   *)
(* whatever its scores; an age equal to either bound does not exclude it   *)
(* (the scheme is admitted whenever it is admitted with the age unset).    *)
C1_AgeHardConstraint ==
    HasResults =>
        \A s \in CallSchemes :
            /\ AgeOutside(s, call.user) => s.id \notin ResultIds
            /\ (AgeOnBound(s, call.user) /\ AdmitsUser(s, [call.user EXCEPT !.age = {}]))
                   => s.id \in call.admitted

\* scheme 1 (18..60) is the vector path's candidate and the user is too old
C1_Witness ==
    /\ Returned
    /\ call.results /= <<>>
    /\ \E s \in CallSchemes :
         /\ s.min_age /= {} /\ s.max_age /= {}
         /\ AgeOutside(s, call.user)
         /\ s.id \in CandidateIds
         /\ KeywordScore(call.query, s) > 0
         /\ s.id \notin ResultIds

(* C2: a scheme whose gender is not "any" is excluded from the results for *)
(* a user whose gender is set and differs, regardless of its similarity or *)
(* keyword score.                                                          *)
C2_GenderHardConstraint ==
    HasResults =>
        \A s \in CallSchemes :
            (s.gender /= "any" /\ \E g \in call.user.gender : g /= s.gender)
                => s.id \notin ResultIds

\* a perfect lexical and semantic match is excluded for a male user
C2_Witness ==
    /\ Returned
    /\ \E s \in CallSchemes :
         /\ s.gender = "female" /\ call.user.gender = {"male"}
         /\ KeywordScore(call.query, s) = 100
         /\ \E i \in DOMAIN call.cands :
               call.cands[i].scheme_id = s.id /\ call.cands[i].similarity = 100
         /\ s.id \notin ResultIds

OptValues(f) ==
    CASE f = "age" -> OptAges
      [] f = "gender" -> OptGenders
      [] f = "state" -> OptStates
      [] OTHER -> OptIncomes

HardFields == {"age", "gender", "state", "income"}

(* C3: an unset profile field never causes a hard-constraint failure: with *)
(* age, gender, state or income unset in the user row, every scheme that   *)
(* some value of that field would admit is admitted; a row with none of    *)
(* the four set is excluded by the required flags only.                    *)
C3_UnsetNeverExcludes ==
    HasResults =>
        \A s \in CallSchemes :
            /\ \A f \in HardFields :
                 (call.user[f] = {}
                  /\ \E val \in OptValues(f) \ {{}} :
                        AdmitsUser(s, [call.user EXCEPT ![f] = val]))
                     => s.id \in call.admitted
            /\ ((\A f \in HardFields : call.user[f] = {})
                /\ \A x \in Flags : s.requires[x] => TRUE \in UserFlag(call.user, x))
                   => s.id \in call.admitted

\* a freshly created user row (nothing set): the age-, gender- and
\* state-restricted schemes are all returned
C3_Witness ==
    /\ Returned
    /\ call.user = EmptyUser
    /\ \E s \in CallSchemes : s.min_age /= {} /\ s.state /= "" /\ s.id \in ResultIds
    /\ \E s \in CallSchemes : s.gender /= "any" /\ s.id \in ResultIds

(* C4: a scheme that requires a flag (minority, differently_abled, bpl,    *)
(* student) never appears in the results for a user whose flag is not true.*)
C4_RequiredFlagsHard ==
    HasResults =>
        \A s \in CallSchemes : \A x \in Flags :
            (s.requires[x] /\ TRUE \notin UserFlag(call.user, x))
                => s.id \notin ResultIds

\* the best vector candidate requires bpl; the user is a student, not bpl
C4_Witness ==
    /\ Returned
    /\ call.user.is_student = {TRUE}
    /\ TRUE \notin call.user.is_bpl
    /\ \E s \in CallSchemes :
         /\ s.requires["bpl"]
         /\ call.cands /= <<>> /\ call.cands[1].scheme_id = s.id
         /\ s.id \notin ResultIds

(* C5: no scheme_id appears twice in a results list; a scheme surfaced by  *)
(* the vector path and by the keyword/rule pass is one entry.              *)
C5_NoDuplicateIds ==
    HasResults =>
        \A i, j \in DOMAIN call.results :
            i /= j => call.results[i].scheme_id /= call.results[j].scheme_id

\* a returned entry that both paths surfaced
C5_Witness ==
    /\ Returned
    /\ \E i \in DOMAIN call.results :
         /\ call.results[i].scheme_id \in CandidateIds
         /\ call.results[i].keyword > 0
         /\ call.results[i].similarity /= {}

\* the previous call had the same query and profile (Post) and worked on the
\* same snapshot version as this one; both returned a list
SameInputsTwice ==
    /\ Returned
    /\ \E p \in prev : p.version = call.snap

EmbedderFailed ==
    /\ call.embedded
    /\ \/ call.vec = {}
       \/ \E qv \in call.vec, v \in call.snap : DimensionMismatch(v, qv)

(* C7: whenever the embedder fails (an error, or a vector of the wrong     *)
(* size) the search goes on instead of failing, the call is degraded and   *)
(* its result can be returned, and every entry it returns has matched_by   *)
(* "rule" or "keyword".                                                    *)
C7_DegradeCorrectness ==
    EmbedderFailed =>
        /\ call.pc = "embedded" => ENABLED VectorSearch
        /\ call.pc = "ranked" => ENABLED Respond
        /\ (call.pc \in {"searched", "ranked"} \/ Returned) => call.degraded
        /\ HasResults =>
              \A i \in DOMAIN call.results :
                  call.results[i].matched_by \in {"rule", "keyword"}

\* the embedder was unavailable and the call returned keyword and rule matches
C7_Witness ==
    /\ Returned
    /\ call.vec = {}
    /\ call.degraded
    /\ \E i, j \in DOMAIN call.results :
         call.results[i].matched_by = "keyword" /\ call.results[j].matched_by = "rule"

(* C8: the caller of searchSchemes ends with a ranked list or with a       *)
(* ValidationError, never with a bare failure of a dependency.             *)
C8_NoBareFailure ==
    call.outcome \in {"none", "ok", "validation_error"}

(* C9: a searchSchemes call reads only the snapshot that was active when   *)
(* it started, however rebuilds interleave, and its results are those of   *)
(* that snapshot.                                                          *)
C9_SnapshotIsolation ==
    /\ call.reads \subseteq call.startActive
    /\ Cardinality(call.reads) <= 1
    /\ HasResults =>
          \A v \in call.startActive :
              call.results = RankResults(v, call.req, call.cands,
                                         call.options.limit, call.options.minScore)

\* the active pointer was swapped after the call's first read and before
\* its last one
C9_Witness ==
    /\ call.pc = "searched"
    /\ call.reads = call.startActive
    /\ call.reads /= {}
    /\ active \notin call.startActive

Rebuilding == {w \in Writers : writer[w].pc /= "idle"}

(* C10: at most one rebuild is in progress; the active pointer always      *)
(* designates a completely built snapshot (schemes and embeddings), and so *)
(* does every version a search has captured or read.                       *)
C10_SingleWriterRebuild ==
    /\ Cardinality(Rebuilding) <= 1
    /\ Rebuilding = lock
    /\ Complete(active)
    /\ \A v \in call.snap \cup call.reads : Complete(v)

\* a half-built snapshot exists while a search is between its two reads
C10_Witness ==
    /\ call.pc = "searched"
    /\ \E w \in Writers :
         /\ writer[w].pc = "indexing"
         /\ snapshots[writer[w].version].schemes /= {}
         /\ ~Complete(writer[w].version)

Entries(seq) == {seq[i] : i \in DOMAIN seq}

\* the entries returned or held for return, and those handed to the recorder
ScoredEntries == (IF HasResults THEN Entries(call.results) ELSE {}) \cup Entries(call.handed)

SlugOf(id) == (CHOOSE s \in CallSchemes : s.id = id).slug

NonZeroSimilarity(r) == \E x \in r.similarity : x /= 0

\* r is ranked rightly ahead of q
RankedAhead(r, q) ==
    \/ r.score > q.score
    \/ r.score = q.score /\ NonZeroSimilarity(r) /\ ~NonZeroSimilarity(q)
    \/ r.score = q.score /\ NonZeroSimilarity(r) = NonZeroSimilarity(q)
       /\ SlugRank(SlugOf(r.scheme_id)) < SlugRank(SlugOf(q.scheme_id))

(* C12: the result list is in descending finalScore order; among equal     *)
(* scores an entry with a non-zero similarity precedes one without, and    *)
(* remaining ties are in ascending slug order; ranks count from 0.         *)
C12_Ordering ==
    HasResults =>
        /\ \A i, j \in DOMAIN call.results :
              i < j => RankedAhead(call.results[i], call.results[j])
        /\ \A i \in DOMAIN call.results : call.results[i].rank = i - 1

\* two admitted schemes tied at one score, slugs "abc" and "xyz": "abc" first
C12_Witness ==
    /\ Returned
    /\ \E i, j \in DOMAIN call.results :
         /\ i < j
         /\ call.results[i].score = call.results[j].score
         /\ SlugOf(call.results[i].scheme_id) = "abc"
         /\ SlugOf(call.results[j].scheme_id) = "xyz"

ScoreOf(id) == Entry(ReadVersion, call.req, call.cands, id).score

\* the admitted candidates at or above minScore
Eligible == {id \in call.admitted : \A m \in call.options.minScore : ScoreOf(id) >= m}

(* C13: the returned list has exactly min(limit, number of admitted        *)
(* candidates at or above minScore) entries, they are the highest-scoring  *)
(* of those candidates, and the schemes named to the user are the leading  *)
(* entries of the list in its order.                                       *)
C13_LimitTruncates ==
    HasResults =>
        /\ Len(call.results) = Min(call.options.limit, Cardinality(Eligible))
        /\ ResultIds \subseteq Eligible
        /\ \A id \in Eligible \ ResultIds, i \in DOMAIN call.results :
              call.results[i].score >= ScoreOf(id)
        /\ Returned =>
              /\ Len(call.shown) = Min(ShownMax, Len(call.results))
              /\ \A i \in DOMAIN call.shown : call.shown[i] = call.results[i].scheme_id

\* limit 3, five admitted candidates of varying scores, three returned
C13_Witness ==
    /\ Returned
    /\ call.options = DefaultOptions
    /\ Cardinality(call.admitted) = 5
    /\ Len(call.results) = 3
    /\ call.results[1].score > call.results[2].score
    /\ call.results[2].score > call.results[3].score
    /\ \E id \in call.admitted \ ResultIds : ScoreOf(id) < call.results[3].score
    /\ Len(call.shown) = 3

SarvamCodeOf(code) ==
    CASE code = "en" -> "en-IN"
      [] code = "hi" -> "hi-IN"
      [] code = "ta" -> "ta-IN"
      [] code = "te" -> "te-IN"
      [] code = "bn" -> "bn-IN"
      [] code = "mr" -> "mr-IN"
      [] code = "gu" -> "gu-IN"
      [] code = "kn" -> "kn-IN"
      [] code = "ml" -> "ml-IN"
      [] OTHER -> "pa-IN"

(* C15: a search whose deadline is exceeded does not fail: it returns the  *)
(* results it has, marked degraded.                                        *)
C15_DeadlineNeverFails ==
    (call.pc = "done" /\ call.cause = "timeout")
        => (call.outcome = "ok" /\ call.degraded)

(* C16: a malformed profile value (a negative age) is never stored in the  *)
(* sender's row.                                                           *)
C16_NoMalformedAgeStored == \A i \in DOMAIN users : \A a \in users[i].age : a >= 0

(* C17: every stored match row has matched_by in {vector, keyword, rule,   *)
(* hybrid}.                                                                *)
C17_MatchedByClosed == \A r \in matches : r.matched_by \in MatchedByValues

(* C18: a voice reply is sent only to a sender whose voice preference was  *)
(* on when the message arrived (after /voice off, none until /voice on).   *)
C18_NoVoiceReplyWhenOff ==
    \A h \in Handlers :
        (bot[h].pc = "replied" /\ "voice" \in Range(bot[h].replies))
            => bot[h].user.voice_enabled

(* C19: the sender's preferred_language is always one of the ten supported *)
(* codes.                                                                  *)
C19_LanguageSupported ==
    \A i \in DOMAIN users : users[i].preferred_language \in SupportedCodes

(* C20: a voice response for a sender whose preferred_language is a        *)
(* supported code is requested in that language's Sarvam code.             *)
C20_VoiceLanguageMatches ==
    \A h \in Handlers :
        (bot[h].result.type = "voice_response"
            /\ bot[h].user.preferred_language \in SupportedCodes)
            => bot[h].result.sarvam_language = SarvamCodeOf(bot[h].user.preferred_language)

(* C21: once AudioProcessor is initialised, temp_audio holds at most        *)
(* maxFiles files, whatever files have been written since.                 *)
C21_TempDirBounded ==
    audioProcessor.initialised => Cardinality(audioProcessor.tempDir) <= maxFiles

(* C22: Database.query makes at most retries + 1 attempts; an attempt is   *)
(* followed by another only when it failed with ECONNREFUSED or            *)
(* PROTOCOL_CONNECTION_LOST; the query ends with the rows of its last      *)
(* attempt or by throwing the error of its last attempt; and every query   *)
(* ends.                                                                   *)
C22_RetryBounded ==
    /\ [](/\ Len(dbq.attempts) <= retries + 1
          /\ \A i \in DOMAIN dbq.attempts :
                i < Len(dbq.attempts) => dbq.attempts[i] \in RetryCodes
          /\ dbq.pc = "running" =>
                /\ dbq.retryCount = Len(dbq.attempts)
                /\ \A i \in DOMAIN dbq.attempts : dbq.attempts[i] \in RetryCodes
          /\ dbq.pc = "done" =>
                /\ dbq.attempts /= <<>>
                /\ dbq.retryCount = Len(dbq.attempts) - 1
                /\ dbq.outcome = "result" <=> dbq.attempts[Len(dbq.attempts)] = "rows"
                /\ dbq.outcome = "thrown" <=> dbq.attempts[Len(dbq.attempts)] /= "rows"
                /\ (dbq.outcome = "thrown" /\ Len(dbq.attempts) <= retries)
                      => dbq.attempts[Len(dbq.attempts)] \notin RetryCodes)
    /\ (dbq.pc = "running" ~> dbq.pc = "done")

\* three retries were made and the fourth attempt failed as well
C22_Witness ==
    /\ dbq.pc = "done"
    /\ dbq.outcome = "thrown"
    /\ Len(dbq.attempts) = retries + 1
    /\ dbq.attempts[retries + 1] \in RetryCodes

(* C23: a message event whose handling has ended has sent exactly one      *)
(* reply, whichever step failed; before that it has sent none.             *)
C23_ExactlyOneReply ==
    \A h \in Handlers :
        /\ bot[h].pc = "replied" => Len(bot[h].replies) = 1
        /\ bot[h].pc /= "replied" => bot[h].replies = <<>>

\* the voice media could not be built and the sender got the apology of
\* sendResponse
C23_Witness ==
    /\ bot[1].pc = "replied"
    /\ bot[1].result.success
    /\ bot[1].result.type = "voice_response"
    /\ ~bot[1].result.audio
    /\ bot[1].replies = <<"apology">>

C25_RegisteredTypeReachesHandler ==
    \A h \in Handlers :
        (/\ bot[h].pc = "handled"
         /\ bot[h].type \in RegisteredKinds
         /\ bot[h].result.error /= "ECONNREFUSED")
            => bot[h].result.handler /= "none"

\* what saveMessage throws: the database is unreachable, or the constraint of
\* messages.message_type rejects the row
PersistenceErrors == {"ECONNREFUSED", "23514"}

C27_ProcessIntentNeverThrows ==
    \A h \in Handlers :
        (/\ bot[h].pc \in {"handled", "replied"}
         /\ bot[h].lookup \in {"found", "created"}
         /\ bot[h].result.handler = "handleTextMessage")
            => /\ bot[h].result.success
               /\ bot[h].result.type = "text_response"
               /\ bot[h].result.error = "none"
               /\ bot[h].result.content \in {"answer", "apology"}
               /\ bot[h].pc = "replied" => bot[h].replies = <<"text">>

\* the backend call of a scheme search failed and the apology string was
\* sent as an ordinary reply
C27_Witness ==
    /\ bot[1].pc = "replied"
    /\ bot[1].lookup = "found"
    /\ bot[1].result.handler = "handleTextMessage"
    /\ bot[1].result.intent = "scheme_search"
    /\ bot[1].result.success
    /\ bot[1].result.content = "apology"
    /\ bot[1].replies = <<"text">>

(* C28, as amended: a text message that starts with '/' is handled by      *)
(* handleCommand alone, without intent detection or a backend call; /help, *)
(* /profile and an unrecognised command leave the sender's row unchanged;  *)
(* '/language <x>' and '/voice <x>' change their own column and            *)
(* last_interaction, and nothing else.                                     *)
C28_CommandFrame ==
    [][\A h \in Handlers :
          (/\ bot[h].pc = "ready"
           /\ bot'[h].pc = "handled"
           /\ bot[h].type = "TEXT"
           /\ IsCommand(bot[h].body)
           /\ users /= <<>>)
              => LET cmd == LowerAll(bot[h].body)
                     w == CommandWrites(cmd)
                     r == bot'[h].result
                     changed == {f \in DOMAIN users[1] : users'[1][f] /= users[1][f]}
                 IN  /\ r.intent = "none"
                     /\ ~r.backend
                     /\ r.handler \in {"handleCommand", "none"}
                     /\ Len(users') = Len(users)
                     /\ w = "none" => users' = users
                     /\ w /= "none" => changed \subseteq {w, "last_interaction"}
                     /\ (w = "preferred_language" /\ r.success)
                           => users'[1].preferred_language = cmd[2]
                     /\ (w = "voice_enabled" /\ r.success)
                           => users'[1].voice_enabled = (cmd[2] = "on")]_vars

(* C28, as stated: a command changes no column of the sender's row but the *)
(* one that '/language <x>' or '/voice <x>' sets.                          *)
C28_CommandFrame_AsStated ==
    [][\A h \in Handlers :
          (/\ bot[h].pc = "ready"
           /\ bot'[h].pc = "handled"
           /\ bot[h].type = "TEXT"
           /\ IsCommand(bot[h].body)
           /\ users /= <<>>)
              => \A f \in DOMAIN users[1] :
                    users'[1][f] /= users[1][f]
                        => f = CommandWrites(LowerAll(bot[h].body))]_vars

\* '/voice off' was handled: the preference is off and the language is the
\* one set by an earlier '/language hi'
C28_Witness ==
    /\ bot[1].pc = "handled"
    /\ bot[1].body = <<"/voice", "off">>
    /\ bot[1].result.type = "voice_update"
    /\ users /= <<>>
    /\ ~users[1].voice_enabled
    /\ users[1].preferred_language = "hi"
    /\ users[1].last_interaction = "updateVoicePreference"

(* C29: detectIntent answers for every text, with one of five intents: a   *)
(* text with a scheme keyword is scheme_search whatever else it contains,  *)
(* otherwise one with a crop keyword is crop_advice, otherwise one with a  *)
(* weather keyword is weather_info, otherwise one with a health keyword is *)
(* health_query, otherwise it is general; an English keyword is found in   *)
(* any letter case.                                                        *)
C29_IntentPriority ==
    \A h \in Handlers :
        (/\ bot[h].pc \in {"handled", "replied"}
         /\ bot[h].lookup \in {"found", "created"}
         /\ bot[h].result.handler = "handleTextMessage")
            => LET body == bot[h].body
                   intent == bot[h].result.intent
                   Has(K) == \E i \in DOMAIN body : KeywordsIn(Lower(body[i])) \cap K /= {}
               IN  /\ intent \in BackendIntents \cup {"general"}
                   /\ Has(SchemeKeywords) => intent = "scheme_search"
                   /\ (~Has(SchemeKeywords) /\ Has(CropKeywords)) => intent = "crop_advice"
                   /\ (~Has(SchemeKeywords \cup CropKeywords) /\ Has(WeatherKeywords))
                         => intent = "weather_info"
                   /\ (~Has(SchemeKeywords \cup CropKeywords \cup WeatherKeywords)
                          /\ Has(HealthKeywords))
                         => intent = "health_query"
                   /\ ~Has(SchemeKeywords \cup CropKeywords \cup WeatherKeywords
                               \cup HealthKeywords)
                         => intent = "general"
                   /\ body = <<"crop", "Scheme">> => intent = "scheme_search"
                   /\ body = <<"WEATHER", "crops">> => intent = "crop_advice"
                   /\ body = <<"Health", "weather">> => intent = "weather_info"
                   /\ body = <<"doctor">> => intent = "health_query"
                   /\ body = <<"hello">> => intent = "general"

\* "crop Scheme": a crop keyword first, a capitalised scheme keyword second,
\* and the intent is scheme_search
C29_Witness ==
    /\ bot[1].pc = "handled"
    /\ bot[1].lookup = "found"
    /\ bot[1].body = <<"crop", "Scheme">>
    /\ bot[1].result.handler = "handleTextMessage"
    /\ bot[1].result.intent = "scheme_search"

(* C30: no write of the profile erases data.  updateProfile, and           *)
(* createOrUpdate on an existing sender, leave every profile field whose   *)
(* supplied value is unset as it was; no step replaces a stored profile    *)
(* value by null; and createOrUpdate on an existing sender leaves          *)
(* preferred_language and voice_enabled as they were.                      *)
C30_ProfileWritesKeepData ==
    [][/\ \A data \in ProfileInputs :
             UpdateProfile(data) =>
                 /\ \A f \in ProfileFields :
                       /\ data[f] = {} => users'[1][f] = users[1][f]
                       /\ data[f] /= {} => users'[1][f] = data[f]
                 /\ users'[1].preferred_language = users[1].preferred_language
                 /\ users'[1].voice_enabled = users[1].voice_enabled
       /\ \A data \in UpsertInputs :
             (CreateOrUpdateCall(data) /\ users /= <<>>) =>
                 /\ \A f \in ProfileFields :
                       /\ data[f] = {} => users'[1][f] = users[1][f]
                       /\ data[f] /= {} => users'[1][f] = data[f]
                 /\ users'[1].preferred_language = users[1].preferred_language
                 /\ users'[1].voice_enabled = users[1].voice_enabled
       /\ users /= <<>> =>
             /\ Len(users') = Len(users)
             /\ \A f \in ProfileFields : users[1][f] /= {} => users'[1][f] /= {}]_vars

\* the name given at creation and the flag set by updateProfile are still
\* there after a createOrUpdate that supplied neither, and the language and
\* voice preference it supplied were not taken over
C30_Witness ==
    /\ users /= <<>>
    /\ users[1].name = {"Asha"}
    /\ users[1].is_bpl = {TRUE}
    /\ users[1].caste = {"sc"}
    /\ users[1].preferred_language = "en"
    /\ users[1].voice_enabled
    /\ users[1].last_interaction = "createOrUpdate"

=============================================================================
